---- MODULE Spec2Model ----
(***************************************************************************)
(* A model of the demonstration MCP server of src/src/index.ts.  The file  *)
(* holds two variants of the server:                                       *)
(*   - the "worker" variant (lines 1-414): the tools mutate globalState    *)
(*     and WorkerMCPTransport.handleRequest dispatches JSON-RPC bodies;    *)
(*   - the "agent" variant (lines 415-680): class SimpleFastMCP, whose     *)
(*     tools replace this.state through setState and whose protocol        *)
(*     dispatch is done by the MCP SDK.                                    *)
(* One deployment runs one variant; Init chooses it.                       *)
(***************************************************************************)
EXTENDS Integers, Sequences, FiniteSets, TLC

VARIABLES
    variant,      \* "worker" or "agent": which of the two servers is deployed
    globalState,  \* worker variant: let globalState = { counter, messages }
    state,        \* agent variant: this.state of SimpleFastMCP
    nreq,         \* number of requests served so far (bounded by MaxRequests)
    last,         \* observer: the last request, the store before it, its response
    older,        \* observer: summary of the tool call served just before `last`
    calls,        \* observer: the logging tools called so far, in call order
    inflight,     \* concurrent serving: the requests in flight, by arrival
    ran           \* observer: the in-flight requests whose handler has run,
                  \* in the order the handlers ran

vars == <<variant, globalState, state, nreq, last, older, calls, inflight, ran>>

\* Bound on the number of requests one behaviour serves.
MaxRequests == 3

\* Bound on the number of requests in flight at the same time.
MaxInFlight == 2

(***************************************************************************)
(* JavaScript values.  Every value is a record of the same shape so that   *)
(* values of different JavaScript types can be compared.                   *)
(***************************************************************************)
Undefined == [t |-> "undefined", n |-> 0, s |-> ""]
NaN       == [t |-> "NaN", n |-> 0, s |-> ""]
Num(i)    == [t |-> "number", n |-> i, s |-> ""]
Str(x)    == [t |-> "string", n |-> 0, s |-> x]

\* `${v}` inside a template literal.
Template(v) ==
    CASE v.t = "number"    -> ToString(v.n)
      [] v.t = "string"    -> v.s
      [] v.t = "NaN"       -> "NaN"
      [] v.t = "undefined" -> "undefined"

\* The JavaScript binary + : string concatenation when either operand is a
\* string, numeric addition of two numbers, NaN otherwise.
JsAdd(x, y) ==
    IF x.t = "string" \/ y.t = "string" THEN Str(Template(x) \o Template(y))
    ELSE IF x.t = "number" /\ y.t = "number" THEN Num(x.n + y.n)
    ELSE NaN

\* Array.prototype.join(sep)
RECURSIVE Join(_, _)
Join(arr, sep) ==
    IF Len(arr) = 0 THEN ""
    ELSE IF Len(arr) = 1 THEN arr[1]
    ELSE arr[1] \o sep \o Join(Tail(arr), sep)

(***************************************************************************)
(* The state store.                                                        *)
(***************************************************************************)
InitialState == [counter |-> Num(0), messages |-> <<>>]

\* The arguments object of a tool call: the named parameters the tools read.
EmptyObject == [amount |-> Undefined, message |-> Undefined]

\* What a tool handler produces: the store it leaves and the text of the
\* single content item { type: "text", text } it returns.
Outcome(st, text) == [state |-> st, text |-> text]

(***************************************************************************)
(* Worker variant: the five tool handlers (globalState).                   *)
(***************************************************************************)
\* Faulty add_to_counter: stores the amount instead of the sum.
add_to_counter_lost_update(st, args, now) ==
    LET oldValue == st.counter
        newValue == JsAdd(oldValue, args.amount)
        message  == "Added " \o Template(args.amount) \o ": "
                    \o Template(oldValue) \o " → " \o Template(newValue)
    IN  Outcome([counter |-> args.amount,
                 messages |-> Append(st.messages, message)],
                "Successfully added " \o Template(args.amount)
                \o " to counter. New value: " \o Template(newValue))

\* Faulty add_to_counter: reports the old value as the new one.
add_to_counter_reports_old(st, args, now) ==
    LET oldValue == st.counter
        newValue == JsAdd(oldValue, args.amount)
        message  == "Added " \o Template(args.amount) \o ": "
                    \o Template(oldValue) \o " → " \o Template(newValue)
    IN  Outcome([counter |-> newValue,
                 messages |-> Append(st.messages, message)],
                "Successfully added " \o Template(args.amount)
                \o " to counter. New value: " \o Template(oldValue))

add_to_counter(st, args, now) ==
    LET oldValue == st.counter
        newValue == JsAdd(oldValue, args.amount)
        message  == "Added " \o Template(args.amount) \o ": "
                    \o Template(oldValue) \o " → " \o Template(newValue)
    IN  Outcome([counter |-> newValue,
                 messages |-> Append(st.messages, message)],
                "Successfully added " \o Template(args.amount)
                \o " to counter. New value: " \o Template(newValue))

\* Faulty reset_counter: logs the reset but keeps the counter.
reset_counter_keeps_counter(st, args, now) ==
    Outcome([counter |-> st.counter,
             messages |-> Append(st.messages, "Counter reset to 0")],
            "Counter has been reset to 0")

\* Faulty reset_counter: starts the log afresh.
reset_counter_clears_log(st, args, now) ==
    Outcome([counter |-> Num(0), messages |-> <<"Counter reset to 0">>],
            "Counter has been reset to 0")

reset_counter(st, args, now) ==
    Outcome([counter |-> Num(0),
             messages |-> Append(st.messages, "Counter reset to 0")],
            "Counter has been reset to 0")

\* Faulty get_time: answers without logging.
get_time_silent(st, args, now) ==
    Outcome(st, "Current server time: " \o now)

get_time(st, args, now) ==
    Outcome([st EXCEPT !.messages = Append(@, "Time requested: " \o now)],
            "Current server time: " \o now)

\* Faulty send_message: stores the message without its timestamp.
send_message_logs_bare(st, args, now) ==
    LET timestamp       == now
        messageWithTime == "[" \o timestamp \o "] " \o Template(args.message)
    IN  Outcome([st EXCEPT !.messages = Append(@, Template(args.message))],
                "Message stored: " \o messageWithTime)

send_message(st, args, now) ==
    LET timestamp       == now
        messageWithTime == "[" \o timestamp \o "] " \o Template(args.message)
    IN  Outcome([st EXCEPT !.messages = Append(@, messageWithTime)],
                "Message stored: " \o messageWithTime)

\* Faulty get_message_count: logs the query like the other tools.
get_message_count_logs(st, args, now) ==
    LET count == Len(st.messages)
    IN  Outcome([st EXCEPT !.messages = Append(@, "Count requested")],
                "Total messages stored: " \o ToString(count))

get_message_count(st, args, now) ==
    LET count == Len(st.messages)
    IN  Outcome(st, "Total messages stored: " \o ToString(count))

(***************************************************************************)
(* Worker variant: the tool registry.  An input schema is kept as the set  *)
(* of required properties and the properties declared of each primitive    *)
(* type.                                                                    *)
(***************************************************************************)
NoProperties == [required |-> {}, number |-> {}, string |-> {}]

\* Faulty schema: amount neither required nor typed.
add_to_counter_inputSchema_optional ==
    [required |-> {}, number |-> {}, string |-> {}]

add_to_counter_inputSchema ==
    [required |-> {"amount"}, number |-> {"amount"}, string |-> {}]

send_message_inputSchema ==
    [required |-> {"message"}, number |-> {}, string |-> {"message"}]

\* The keys of the registry, in registration order.
ToolNames ==
    <<"add_to_counter", "reset_counter", "get_time", "send_message",
      "get_message_count">>

Range(f) == {f[i] : i \in DOMAIN f}

\* server._tools: tool name -> metadata.inputSchema
_tools ==
    [name \in Range(ToolNames) |->
        CASE name = "add_to_counter" -> add_to_counter_inputSchema
          [] name = "send_message"   -> send_message_inputSchema
          [] OTHER                   -> NoProperties]

\* The handler registered under a tool name.
Handler(name, st, args, now) ==
    CASE name = "add_to_counter"    -> add_to_counter(st, args, now)
      [] name = "reset_counter"     -> reset_counter(st, args, now)
      [] name = "get_time"          -> get_time(st, args, now)
      [] name = "send_message"      -> send_message(st, args, now)
      [] name = "get_message_count" -> get_message_count(st, args, now)

\* Whether an arguments object satisfies an input schema: every required
\* property is present and every present property has its declared type.
Validates(schema, args) ==
    /\ \A p \in schema.required : args[p] # Undefined
    /\ \A p \in schema.number : args[p] = Undefined \/ args[p].t = "number"
    /\ \A p \in schema.string : args[p] = Undefined \/ args[p].t = "string"

\* What a call into the registry yields: either a thrown error or the
\* handler's outcome.
Thrown(st, error) == [threw |-> TRUE, error |-> error, state |-> st, text |-> ""]
Returned(out)     == [threw |-> FALSE, error |-> "", state |-> out.state,
                      text |-> out.text]

\* server._callTool(toolName, args): look the tool up; on a miss, throw; on a
\* hit validate the arguments against the input schema, then run the handler.
_callTool(st, toolName, args, now) ==
    IF toolName.t # "string" \/ toolName.s \notin DOMAIN _tools
    THEN Thrown(st, "Error: Tool " \o Template(toolName) \o " not found")
    ELSE IF ~Validates(_tools[toolName.s], args)
    THEN Thrown(st, "Error: Invalid arguments for tool " \o toolName.s)
    ELSE Returned(Handler(toolName.s, st, args, now))

(***************************************************************************)
(* Worker variant: the two resources.                                      *)
(***************************************************************************)
\* Faulty counter resource: serves the value computed at registration.
counter_resource_cached(st) == "Current counter value: 0"

counter_resource(st) == "Current counter value: " \o Template(st.counter)

\* The separator is the two characters backslash and n.
messages_resource(st) == Join(st.messages, "\\n")

ResourceNames == <<"counter", "messages">>

\* server._readResource(resourceName, resourceUri): resolve the resource by
\* name (the trailing path segment of the URI); an unmatched name throws.
_readResource(st, resourceName, resourceUri) ==
    CASE resourceName = "counter"  ->
            Returned(Outcome(st, counter_resource(st)))
      [] resourceName = "messages" ->
            Returned(Outcome(st, messages_resource(st)))
      [] OTHER ->
            Thrown(st, "Error: Resource " \o resourceName \o " not found")

(***************************************************************************)
(* HTTP requests and responses.  A pathname is the sequence of its         *)
(* characters, a URI the sequence of its "/"-separated segments.           *)
(***************************************************************************)
MCP_PATH    == <<"/", "m", "c", "p">>
SSE_PATH    == <<"/", "s", "s", "e">>
HEALTH_PATH == <<"/", "h", "e", "a", "l", "t", "h">>
ROOT_PATH   == <<"/">>

\* String.prototype.startsWith
StartsWith(str, prefix) ==
    Len(str) >= Len(prefix) /\ SubSeq(str, 1, Len(prefix)) = prefix

\* Faulty lookup: takes the first segment of the URI.
LastSegment_first(segs) == segs[1]

\* uri.split('/').pop()
LastSegment(segs) == segs[Len(segs)]

NoResult == [kind |-> "none", text |-> "", names |-> <<>>]
NoError  == [code |-> 0, message |-> ""]

\* A response: the HTTP status, and either a plain-text body or the fields of
\* the JSON object sent.  JSON serialisation drops a key whose value is
\* undefined, so id = Undefined stands for a response without an id field.
\* `headers` is the set of <<name, value>> pairs the response carries and
\* `json` the object of a JSON response that is no JSON-RPC envelope.
NoJson ==
    [status |-> "", timestamp |-> "", hasState |-> FALSE,
     counter |-> Undefined, messageCount |-> 0, hasTransport |-> FALSE]
JSON_HEADERS == {<<"Content-Type", "application/json">>}
TEXT_HEADERS == {<<"Content-Type", "text/plain">>}

\* new Response(text, { status })
PlainResponse(status, text) ==
    [status |-> status, type |-> "text", text |-> text, id |-> Undefined,
     hasResult |-> FALSE, result |-> NoResult,
     hasError |-> FALSE, error |-> NoError,
     headers |-> {}, json |-> NoJson]

\* new Response(text, { headers: { 'Content-Type': 'text/plain' } })
TextResponse(text) ==
    [PlainResponse(200, text) EXCEPT !.headers = TEXT_HEADERS]

\* Response.json({ jsonrpc, id, result }): a result that is undefined is
\* dropped like any other undefined value.
ResultResponse(id, result) ==
    [status |-> 200, type |-> "jsonrpc", text |-> "", id |-> id,
     hasResult |-> result # NoResult, result |-> result,
     hasError |-> FALSE, error |-> NoError,
     headers |-> JSON_HEADERS, json |-> NoJson]

ErrorResponse(id, code, message) ==
    [status |-> 200, type |-> "jsonrpc", text |-> "", id |-> id,
     hasResult |-> FALSE, result |-> NoResult,
     hasError |-> TRUE, error |-> [code |-> code, message |-> message],
     headers |-> JSON_HEADERS, json |-> NoJson]

\* Response.json(object) of an object that is no JSON-RPC envelope.
JsonResponse(object) ==
    [status |-> 200, type |-> "json", text |-> "", id |-> Undefined,
     hasResult |-> FALSE, result |-> NoResult,
     hasError |-> FALSE, error |-> NoError,
     headers |-> JSON_HEADERS, json |-> object]

\* Faulty tool result: the handler returns nothing.
ToolResult_undefined(text) == NoResult

\* { content: [ { type: "text", text } ] } and { contents: [ { uri, text } ] }
ToolResult(text)     == [kind |-> "content", text |-> text, names |-> <<>>]
ResourceResult(text) == [kind |-> "contents", text |-> text, names |-> <<>>]

\* What serving a request yields: the store it leaves and the response.
Served(st, response) == [state |-> st, response |-> response]

(***************************************************************************)
(* Worker variant: WorkerMCPTransport.handleRequest.                       *)
(***************************************************************************)
\* The outer catch: any fault outside the inner try blocks.
\* Faulty outer catch: answers with the invalid-request code.
ParseErrorResponse_with_code_32600 == ErrorResponse(Undefined, -32600, "Parse error")

ParseErrorResponse == ErrorResponse(Undefined, -32700, "Parse error")

\* body.params.arguments || {}
ArgumentsOrEmpty(arguments) ==
    IF arguments.present THEN [amount |-> arguments.amount,
                               message |-> arguments.message]
    ELSE EmptyObject

\* Faulty tools/call: no inner catch, a tool fault reaches the outer catch.
ToolsCall_rethrows(st, body, now) ==
    IF ~body.params.present
    THEN Served(st, ParseErrorResponse)
    ELSE LET toolName == body.params.name
             args     == ArgumentsOrEmpty(body.params.arguments)
             r        == _callTool(st, toolName, args, now)
         IN  IF r.threw
             THEN Served(r.state, ParseErrorResponse)
             ELSE Served(r.state, ResultResponse(body.id, ToolResult(r.text)))

\* Faulty tools/call: a call without an id is refused after the tool has run.
ToolsCall_fails_after_run(st, body, now) ==
    IF ~body.params.present
    THEN Served(st, ParseErrorResponse)
    ELSE LET toolName == body.params.name
             args     == ArgumentsOrEmpty(body.params.arguments)
             r        == _callTool(st, toolName, args, now)
         IN  IF r.threw \/ body.id = Undefined
             THEN Served(r.state,
                         ErrorResponse(body.id, -32603,
                                       "Tool execution failed: " \o r.error))
             ELSE Served(r.state, ResultResponse(body.id, ToolResult(r.text)))

\* case 'tools/call'.  Reading body.params.name of an absent params object is
\* a TypeError thrown outside the inner try: the outer catch answers it.
ToolsCall(st, body, now) ==
    IF ~body.params.present
    THEN Served(st, ParseErrorResponse)
    ELSE LET toolName == body.params.name
             args     == ArgumentsOrEmpty(body.params.arguments)
             r        == _callTool(st, toolName, args, now)
         IN  IF r.threw
             THEN Served(r.state,
                         ErrorResponse(body.id, -32603,
                                       "Tool execution failed: " \o r.error))
             ELSE Served(r.state, ResultResponse(body.id, ToolResult(r.text)))

\* Faulty case 'resources/read': every read is entered in the log.
ResourcesRead_logs(st, body) ==
    Served([counter |-> st.counter,
            messages |-> Append(st.messages, "Resource read")],
           ResultResponse(body.id, ResourceResult(counter_resource(st))))

\* case 'resources/read'.  body.params.uri of an absent params object, and
\* .split of an absent uri, are TypeErrors thrown outside the inner try.
ResourcesRead(st, body) ==
    IF ~body.params.present \/ ~body.params.uri.present
    THEN Served(st, ParseErrorResponse)
    ELSE LET resourceUri  == body.params.uri.segs
             resourceName == LastSegment(resourceUri)
             r            == _readResource(st, resourceName, resourceUri)
         IN  IF r.threw
             THEN Served(r.state,
                         ErrorResponse(body.id, -32603,
                                       "Resource read failed: " \o r.error))
             ELSE Served(r.state,
                         ResultResponse(body.id, ResourceResult(r.text)))

\* Faulty default case: an unknown method reported as an internal error.
MethodNotFoundResponse_internal(body) ==
    ErrorResponse(body.id, -32603,
                  "Method not found: " \o Template(body.method))

\* The default case of the switch on body.method.
MethodNotFoundResponse(body) ==
    ErrorResponse(body.id, -32601,
                  "Method not found: " \o Template(body.method))

handleRequest(st, request, now) ==
    IF request.method # "POST"
    THEN Served(st, PlainResponse(405, "Method not allowed"))
    ELSE LET body == request.body
         IN  IF body.json = "malformed"   \* request.json() throws
             THEN Served(st, ParseErrorResponse)
             ELSE IF body.json = "null"   \* body.method of null throws
             THEN Served(st, ParseErrorResponse)
             ELSE CASE body.method = Str("initialize") ->
                        Served(st, ResultResponse(body.id,
                            [kind |-> "initialize", text |-> "2024-11-05",
                             names |-> <<>>]))
                    [] body.method = Str("tools/list") ->
                        Served(st, ResultResponse(body.id,
                            [kind |-> "tools", text |-> "",
                             names |-> ToolNames]))
                    [] body.method = Str("tools/call") ->
                        ToolsCall(st, body, now)
                    [] body.method = Str("resources/list") ->
                        Served(st, ResultResponse(body.id,
                            [kind |-> "resources", text |-> "",
                             names |-> ResourceNames]))
                    [] body.method = Str("resources/read") ->
                        ResourcesRead(st, body)
                    [] OTHER ->
                        Served(st, MethodNotFoundResponse(body))

\* Faulty /health: reports the state of a fresh server.
HealthResponse_initial_state(st, now) ==
    JsonResponse([status |-> "ok", timestamp |-> now, hasState |-> TRUE,
                  counter |-> Num(0), messageCount |-> 0,
                  hasTransport |-> FALSE])

\* The JSON object of /health: { status, timestamp, server, version,
\* state: { counter, messageCount } }.
HealthResponse(st, now) ==
    JsonResponse([status |-> "ok", timestamp |-> now, hasState |-> TRUE,
                  counter |-> st.counter, messageCount |-> Len(st.messages),
                  hasTransport |-> FALSE])

\* The worker's fetch handler: routing by pathname.
fetch(st, request, now) ==
    IF request.pathname = MCP_PATH THEN handleRequest(st, request, now)
    ELSE IF request.pathname = HEALTH_PATH
    THEN Served(st, HealthResponse(st, now))
    ELSE IF request.pathname = ROOT_PATH
    THEN Served(st, TextResponse(
            "# Simple MCP Server; Counter: " \o Template(st.counter)
            \o "; Messages: " \o ToString(Len(st.messages))))
    ELSE Served(st, PlainResponse(404, "Not found"))

(***************************************************************************)
(* Agent variant: class SimpleFastMCP.  The handlers read this.state and   *)
(* replace it through setState.                                            *)
(***************************************************************************)
SimpleFastMCP_add_to_counter(st, args, now) ==
    LET oldValue == st.counter
        newValue == JsAdd(oldValue, args.amount)
    IN  Outcome([counter |-> newValue,
                 messages |-> st.messages \o
                     <<"Added " \o Template(args.amount) \o ": "
                       \o Template(oldValue) \o " → " \o Template(newValue)>>],
                "Successfully added " \o Template(args.amount)
                \o " to counter. New value: " \o Template(newValue))

SimpleFastMCP_reset_counter(st, args, now) ==
    Outcome([counter |-> Num(0),
             messages |-> st.messages \o <<"Counter reset to 0">>],
            "Counter has been reset to 0")

SimpleFastMCP_get_time(st, args, now) ==
    Outcome([counter |-> st.counter,
             messages |-> st.messages \o <<"Time requested: " \o now>>],
            "Current server time: " \o now)

SimpleFastMCP_send_message(st, args, now) ==
    LET timestamp       == now
        messageWithTime == "[" \o timestamp \o "] " \o Template(args.message)
    IN  Outcome([counter |-> st.counter,
                 messages |-> st.messages \o <<messageWithTime>>],
                "Message stored: " \o messageWithTime)

SimpleFastMCP_get_message_count(st, args, now) ==
    LET count == Len(st.messages)
    IN  Outcome(st, "Total messages stored: " \o ToString(count))

SimpleFastMCP_counter_resource(st) ==
    "Current counter value: " \o Template(st.counter)

SimpleFastMCP_messages_resource(st) == Join(st.messages, "\n")

\* The zod shapes given to this.server.tool.
SimpleFastMCP_add_to_counter_shape ==
    [required |-> {"amount"}, number |-> {"amount"}, string |-> {}]

SimpleFastMCP_send_message_shape ==
    [required |-> {"message"}, number |-> {}, string |-> {"message"}]

SimpleFastMCP_tools ==
    [name \in Range(ToolNames) |->
        CASE name = "add_to_counter" -> SimpleFastMCP_add_to_counter_shape
          [] name = "send_message"   -> SimpleFastMCP_send_message_shape
          [] OTHER                   -> NoProperties]

SimpleFastMCP_Handler(name, st, args, now) ==
    CASE name = "add_to_counter" -> SimpleFastMCP_add_to_counter(st, args, now)
      [] name = "reset_counter"  -> SimpleFastMCP_reset_counter(st, args, now)
      [] name = "get_time"       -> SimpleFastMCP_get_time(st, args, now)
      [] name = "send_message"   -> SimpleFastMCP_send_message(st, args, now)
      [] name = "get_message_count" ->
            SimpleFastMCP_get_message_count(st, args, now)

\* The protocol dispatcher the SDK puts in front of the agent's registries
\* (SimpleFastMCP.serve and SimpleFastMCP.serveSSE): the same contract for
\* both transports.
serve(st, request, now) ==
    LET body == request.body
    IN  IF body.json # "object"
        THEN Served(st, ErrorResponse(Undefined, -32700, "Parse error"))
        ELSE CASE body.method = Str("initialize") ->
                    Served(st, ResultResponse(body.id,
                        [kind |-> "initialize", text |-> "2024-11-05",
                         names |-> <<>>]))
               [] body.method = Str("tools/list") ->
                    Served(st, ResultResponse(body.id,
                        [kind |-> "tools", text |-> "", names |-> ToolNames]))
               [] body.method = Str("resources/list") ->
                    Served(st, ResultResponse(body.id,
                        [kind |-> "resources", text |-> "",
                         names |-> ResourceNames]))
               [] body.method = Str("tools/call") ->
                    LET toolName == body.params.name
                        args == ArgumentsOrEmpty(body.params.arguments)
                    IN  IF \/ ~body.params.present
                           \/ toolName.t # "string"
                           \/ toolName.s \notin DOMAIN SimpleFastMCP_tools
                        THEN Served(st, ErrorResponse(body.id, -32601,
                                "Tool not found: " \o Template(toolName)))
                        ELSE IF ~Validates(SimpleFastMCP_tools[toolName.s], args)
                        THEN Served(st, ErrorResponse(body.id, -32603,
                                "Invalid arguments for tool " \o toolName.s))
                        ELSE LET out == SimpleFastMCP_Handler(toolName.s, st,
                                                              args, now)
                             IN  Served(out.state,
                                        ResultResponse(body.id,
                                                       ToolResult(out.text)))
               [] body.method = Str("resources/read") ->
                    LET uri  == body.params.uri
                        name == IF body.params.present /\ uri.present
                                THEN LastSegment(uri.segs) ELSE ""
                    IN  CASE name = "counter" ->
                                Served(st, ResultResponse(body.id,
                                    ResourceResult(
                                        SimpleFastMCP_counter_resource(st))))
                          [] name = "messages" ->
                                Served(st, ResultResponse(body.id,
                                    ResourceResult(
                                        SimpleFastMCP_messages_resource(st))))
                          [] OTHER ->
                                Served(st, ErrorResponse(body.id, -32601,
                                    "Resource not found"))
               [] OTHER ->
                    Served(st, ErrorResponse(body.id, -32601,
                        "Method not found: " \o Template(body.method)))

\* The JSON object of the agent's /health: { status, timestamp, transport }.
\* new Response(JSON.stringify(...), { headers: Content-Type }).
SimpleFastMCP_HealthResponse(now) ==
    JsonResponse([status |-> "ok", timestamp |-> now, hasState |-> FALSE,
                  counter |-> Undefined, messageCount |-> 0,
                  hasTransport |-> TRUE])

\* The agent's fetch handler: routing by pathname.
SimpleFastMCP_fetch(st, request, now) ==
    IF StartsWith(request.pathname, SSE_PATH) THEN serve(st, request, now)
    ELSE IF StartsWith(request.pathname, MCP_PATH) THEN serve(st, request, now)
    ELSE IF request.pathname = HEALTH_PATH
    THEN Served(st, SimpleFastMCP_HealthResponse(now))
    ELSE IF request.pathname = ROOT_PATH
    THEN Served(st, TextResponse("# Simple FastMCP Server"))
    ELSE Served(st, PlainResponse(404, "Not found"))

(***************************************************************************)
(* The requests a client may send.                                         *)
(***************************************************************************)
Amounts    == {-2, 5}
Timestamps == {"2024-01-01T00:00:00.000Z", "2024-01-01T00:00:01.000Z"}
Ids        == {Num(1), Undefined}
Methods    == {Str("initialize"), Str("tools/list"), Str("tools/call"),
               Str("resources/list"), Str("resources/read"), Str("ping"),
               Undefined}

NoUri     == [present |-> FALSE, segs |-> <<>>]
Uri(segs) == [present |-> TRUE, segs |-> segs]
Uris      == {NoUri,
              Uri(<<"x", "counter">>),
              Uri(<<"mcp:", "", "resource", "counter">>),
              Uri(<<"mcp:", "", "resource", "messages">>),
              Uri(<<"mcp:", "", "resource", "nothing">>)}

NoArguments == [present |-> FALSE, amount |-> Undefined, message |-> Undefined]
Arguments(amount, message) ==
    [present |-> TRUE, amount |-> amount, message |-> message]

NoParams ==
    [present |-> FALSE, name |-> Undefined, arguments |-> NoArguments,
     uri |-> NoUri]
CallParams(name, arguments) ==
    [present |-> TRUE, name |-> name, arguments |-> arguments, uri |-> NoUri]
ReadParams(uri) ==
    [present |-> TRUE, name |-> Undefined, arguments |-> NoArguments,
     uri |-> uri]

\* The params of the tools/call requests: every registered tool, an
\* unregistered one and a missing name; for the two tools that declare a
\* parameter, arguments that have the declared shape and arguments that do not.
Calls_add_to_counter ==
    {CallParams(Str("add_to_counter"), a) :
        a \in {NoArguments, Arguments(Undefined, Undefined),
               Arguments(Str("5"), Undefined)}
                  \cup {Arguments(Num(n), Undefined) : n \in Amounts}}
Calls_send_message ==
    {CallParams(Str("send_message"), a) :
        a \in {NoArguments, Arguments(Undefined, Str("hi")),
               Arguments(Undefined, Num(7))}}
Calls_other ==
    {CallParams(n, NoArguments) :
        n \in {Str("reset_counter"), Str("get_time"),
               Str("get_message_count"), Str("no_such_tool"), Undefined}}
CallParamsSet == Calls_add_to_counter \cup Calls_send_message \cup Calls_other

\* A request body: text that is no JSON, the JSON value null, or a JSON object.
Malformed == [json |-> "malformed", id |-> Undefined, method |-> Undefined,
              params |-> NoParams]
NullBody  == [json |-> "null", id |-> Undefined, method |-> Undefined,
              params |-> NoParams]
Object(id, method, params) ==
    [json |-> "object", id |-> id, method |-> method, params |-> params]

Bodies ==
    {Malformed, NullBody}
        \cup {Object(id, m, NoParams) : id \in Ids, m \in Methods}
        \cup {Object(id, Str("tools/call"), c) : id \in Ids, c \in CallParamsSet}
        \cup {Object(id, Str("resources/read"), ReadParams(u)) :
                 id \in Ids, u \in Uris}

\* The bodies sent to the agent's other transport paths.
FewBodies ==
    {Malformed,
     Object(Num(1), Str("tools/call"),
            CallParams(Str("add_to_counter"), Arguments(Num(5), Undefined))),
     Object(Num(1), Str("tools/call"),
            CallParams(Str("get_message_count"), NoArguments))}

HttpRequest(pathname, method, body) ==
    [pathname |-> pathname, method |-> method, body |-> body]

OTHER_PATH == <<"/", "x">>

WorkerRequests ==
    {HttpRequest(MCP_PATH, "POST", b) : b \in Bodies}
        \cup {HttpRequest(p, m, Malformed) :
                 p \in {MCP_PATH, HEALTH_PATH, ROOT_PATH, OTHER_PATH},
                 m \in {"GET", "OPTIONS", "POST"}}

AgentRequests ==
    {HttpRequest(MCP_PATH, "POST", b) : b \in Bodies}
        \cup {HttpRequest(p, "POST", b) :
                 p \in {SSE_PATH, MCP_PATH \o <<"/", "x">>}, b \in FewBodies}
        \cup {HttpRequest(p, m, Malformed) :
                 p \in {HEALTH_PATH, ROOT_PATH, OTHER_PATH},
                 m \in {"GET", "OPTIONS", "POST"}}

(***************************************************************************)
(* Observers.  `last` records the request served last, the store before it *)
(* and the response; `older` summarises the request served before that     *)
(* when it was a tools/call of a registered tool with arguments of the     *)
(* declared shape.                                                         *)
(***************************************************************************)
Store == IF variant = "worker" THEN globalState ELSE state

\* The request reaches the protocol dispatcher of the deployed variant.
ReachesDispatcher(request) ==
    /\ request.method = "POST"
    /\ IF variant = "worker" THEN request.pathname = MCP_PATH
       ELSE \/ StartsWith(request.pathname, SSE_PATH)
            \/ StartsWith(request.pathname, MCP_PATH)

\* The request is a tools/call of tool `name`.
Calls(request, name) ==
    /\ ReachesDispatcher(request)
    /\ request.body.json = "object"
    /\ request.body.method = Str("tools/call")
    /\ request.body.params.present
    /\ request.body.params.name = Str(name)

\* The arguments of the call have the shape the tool declares.
DeclaredShape(request) ==
    LET arguments == request.body.params.arguments
    IN  /\ Calls(request, "add_to_counter") =>
               arguments.present /\ arguments.amount.t = "number"
        /\ Calls(request, "send_message") =>
               arguments.present /\ arguments.message.t = "string"

ValidCall(request, name) == Calls(request, name) /\ DeclaredShape(request)

\* The tools whose calls are logged: all but get_message_count.
LoggingTools == {"add_to_counter", "reset_counter", "get_time", "send_message"}

NoEvent ==
    [served |-> FALSE, request |-> HttpRequest(ROOT_PATH, "GET", Malformed),
     pre |-> InitialState, response |-> PlainResponse(0, "")]

NoSummary == [tool |-> "", amount |-> Undefined, pre |-> InitialState,
              text |-> ""]

Summary(ev) ==
    IF ev.served /\ \E i \in DOMAIN ToolNames : ValidCall(ev.request, ToolNames[i])
    THEN [tool |-> ev.request.body.params.name.s,
          amount |-> ev.request.body.params.arguments.amount,
          pre |-> ev.pre,
          text |-> ev.response.result.text]
    ELSE NoSummary

Observe(request, pre, out) ==
    /\ last' = [served |-> TRUE, request |-> request, pre |-> pre,
                response |-> out.response]
    /\ older' = Summary(last)
    /\ calls' = IF \E name \in LoggingTools : ValidCall(request, name)
                THEN Append(calls, request.body.params.name.s)
                ELSE calls
    /\ nreq' = nreq + 1

(***************************************************************************)
(* The state machine.                                                      *)
(***************************************************************************)
Init ==
    /\ variant \in {"worker", "agent"}
    /\ globalState = InitialState
    /\ state = InitialState
    /\ nreq = 0
    /\ last = NoEvent
    /\ older = NoSummary
    /\ calls = <<>>
    /\ inflight = <<>>
    /\ ran = <<>>

\* The worker serves one request.
WorkerFetch ==
    /\ variant = "worker"
    /\ nreq < MaxRequests
    /\ \E request \in WorkerRequests, now \in Timestamps :
          LET out == fetch(globalState, request, now)
          IN  /\ globalState' = out.state
              /\ Observe(request, globalState, out)
    /\ UNCHANGED <<variant, state, inflight, ran>>

\* The agent serves one request.
AgentFetch ==
    /\ variant = "agent"
    /\ nreq < MaxRequests
    /\ \E request \in AgentRequests, now \in Timestamps :
          LET out == SimpleFastMCP_fetch(state, request, now)
          IN  /\ state' = out.state
              /\ Observe(request, state, out)
    /\ UNCHANGED <<variant, globalState, inflight, ran>>

Next == WorkerFetch \/ AgentFetch

Spec == Init /\ [][Next]_vars

(***************************************************************************)
(* Concurrent serving.  A request is served in steps separated by the      *)
(* points where its promise chain is suspended: it arrives and awaits      *)
(* request.json(); it resumes, dispatches and awaits the tool call; the    *)
(* tool handler, which contains no await, runs to completion in one step;  *)
(* the awaited result is turned into the response.  Between the steps of   *)
(* one request any step of another may run.                                *)
(***************************************************************************)
\* The tools/call requests that arrive concurrently.
ConcurrentRequests ==
    {HttpRequest(MCP_PATH, "POST",
                 Object(Num(1), Str("tools/call"), c)) :
        c \in {CallParams(Str("add_to_counter"), Arguments(Num(n), Undefined)) :
                  n \in Amounts}
                 \cup {CallParams(Str("reset_counter"), NoArguments),
                       CallParams(Str("get_message_count"), NoArguments)}}

\* Faulty handler: works on the store as it was when the request arrived.
HandlerReads_at_arrival(r, current) == r.seen

\* The store a handler reads: the handler reads globalState / this.state
\* when it runs, in the same synchronous block as its write.
HandlerReads(r, current) == current

\* fetch is called: the request awaits request.json().
Arrive ==
    /\ Len(inflight) < MaxInFlight
    /\ \E request \in ConcurrentRequests :
          inflight' = Append(inflight,
              [request |-> request, pc |-> "json", seen |-> Store,
               response |-> PlainResponse(0, "")])
    /\ UNCHANGED <<variant, globalState, state, nreq, last, older, calls, ran>>

\* request.json() has resolved: the switch dispatches and the tool call is
\* awaited.
Resume ==
    /\ \E i \in DOMAIN inflight :
          /\ inflight[i].pc = "json"
          /\ inflight' = [inflight EXCEPT ![i].pc = "call"]
    /\ UNCHANGED <<variant, globalState, state, nreq, last, older, calls, ran>>

\* The tool handler of one request runs to completion.
RunTool ==
    /\ \E i \in DOMAIN inflight, now \in Timestamps :
          /\ inflight[i].pc = "call"
          /\ LET r   == inflight[i]
                 out == IF variant = "worker"
                        THEN fetch(HandlerReads(r, globalState), r.request, now)
                        ELSE SimpleFastMCP_fetch(HandlerReads(r, state),
                                                 r.request, now)
             IN  /\ IF variant = "worker"
                    THEN globalState' = out.state /\ state' = state
                    ELSE state' = out.state /\ globalState' = globalState
                 /\ inflight' = [inflight EXCEPT ![i].pc = "result",
                                                 ![i].response = out.response]
          /\ ran' = Append(ran, i)
    /\ UNCHANGED <<variant, nreq, last, older, calls>>

\* The awaited result is returned as the response.
Respond ==
    /\ \E i \in DOMAIN inflight :
          /\ inflight[i].pc = "result"
          /\ inflight' = [inflight EXCEPT ![i].pc = "done"]
    /\ UNCHANGED <<variant, globalState, state, nreq, last, older, calls, ran>>

ConcurrentNext == Arrive \/ Resume \/ RunTool \/ Respond

ConcurrentSpec == Init /\ [][ConcurrentNext]_vars

(***************************************************************************)
(* Properties.                                                             *)
(***************************************************************************)
IsPrefix(p, q) == Len(p) <= Len(q) /\ SubSeq(q, 1, Len(p)) = p

\* The amount a valid add_to_counter call carries.
AmountOf(request) == request.body.params.arguments.amount

\* The log entry add_to_counter is specified to append.
AddedEntry(amount, old) ==
    "Added " \o ToString(amount) \o ": " \o ToString(old) \o " → "
    \o ToString(old + amount)

\* C1: for every starting counter value and every pair of valid amounts a and
\* b, add_to_counter with a and then with b leaves counter = initial + a + b
\* and appends exactly two log entries, the entry for a before the one for b.
C1_TwoAddsSum ==
    (/\ last.served
     /\ ValidCall(last.request, "add_to_counter")
     /\ older.tool = "add_to_counter")
    => LET initial == older.pre
           a == older.amount.n
           b == AmountOf(last.request).n
       IN  /\ Store.counter = Num(initial.counter.n + a + b)
           /\ Store.messages =
                 initial.messages \o
                    <<AddedEntry(a, initial.counter.n),
                      AddedEntry(b, initial.counter.n + a)>>

C1_Witness ==
    /\ last.served
    /\ ValidCall(last.request, "add_to_counter")
    /\ older.tool = "add_to_counter"
    /\ older.pre.counter # Num(0)
    /\ older.amount # AmountOf(last.request)

\* C2: the messages list is append-only: whatever request is served, the
\* list before it is a prefix of the list after it.
C2_AppendOnly == [][IsPrefix(Store.messages, Store'.messages)]_vars

C2_Witness ==
    /\ last.served
    /\ Len(last.pre.messages) >= 1
    /\ Len(Store.messages) > Len(last.pre.messages)
    /\ Calls(last.request, "reset_counter")

\* C3: reset_counter sets counter to 0 whatever its prior value, appends
\* exactly the one entry "Counter reset to 0" and leaves every prior message
\* in place and in order.
C3_ResetCounter ==
    (last.served /\ Calls(last.request, "reset_counter"))
    => /\ Store.counter = Num(0)
       /\ Store.messages = Append(last.pre.messages, "Counter reset to 0")

C3_Witness ==
    /\ last.served
    /\ Calls(last.request, "reset_counter")
    /\ last.pre.counter # Num(0)
    /\ Len(last.pre.messages) >= 2

\* The request is a resources/read of the registered resource `name`.
Reads(request, name) ==
    /\ ReachesDispatcher(request)
    /\ request.body.json = "object"
    /\ request.body.method = Str("resources/read")
    /\ request.body.params.present
    /\ request.body.params.uri = Uri(<<"mcp:", "", "resource", name>>)

\* C4: after any sequence of tool calls, reading the messages resource
\* returns exactly the stored log entries joined by a newline character, in
\* call order, with one entry for each add_to_counter, reset_counter,
\* get_time and send_message call and none for get_message_count.
C4_MessagesNewlineJoined ==
    (last.served /\ Reads(last.request, "messages"))
    => /\ last.response.hasResult
       /\ last.response.result.text = Join(Store.messages, "\n")
       /\ Len(Store.messages) = Len(calls)
       /\ \A i \in DOMAIN calls :
             calls[i] = "reset_counter" <=>
                 Store.messages[i] = "Counter reset to 0"

\* C5: get_message_count is idempotent and side-effect-free: called again
\* with no other request in between it yields the same count, and it changes
\* neither messages nor counter.
C5_GetMessageCountPure ==
    (last.served /\ Calls(last.request, "get_message_count"))
    => /\ Store = last.pre
       /\ last.response.hasResult
       /\ last.response.result.text =
             "Total messages stored: " \o ToString(Len(last.pre.messages))
       /\ older.tool = "get_message_count" =>
             last.response.result.text = older.text

C5_Witness ==
    /\ last.served
    /\ Calls(last.request, "get_message_count")
    /\ older.tool = "get_message_count"
    /\ Len(Store.messages) >= 1

\* C6: add_to_counter reports and logs consistent values: called with amount
\* a when counter = old, it answers "Successfully added a to counter. New
\* value: new", appends "Added a: old → new" and stores counter = new, where
\* new = old + a.
C6_AddReportsAndLogs ==
    (last.served /\ ValidCall(last.request, "add_to_counter"))
    => LET a      == AmountOf(last.request).n
           old    == last.pre.counter.n
           new    == old + a
       IN  /\ last.response.hasResult
           /\ last.response.result.text =
                 "Successfully added " \o ToString(a)
                 \o " to counter. New value: " \o ToString(new)
           /\ Store.messages =
                 Append(last.pre.messages, AddedEntry(a, old))
           /\ Store.counter = Num(new)

\* The scenario of the README: from a fresh state, amount 5.
C6_Witness ==
    /\ last.served
    /\ ValidCall(last.request, "add_to_counter")
    /\ last.pre = InitialState
    /\ AmountOf(last.request) = Num(5)
    /\ last.response.result.text =
          "Successfully added 5 to counter. New value: 5"
    /\ Store.counter = Num(5)

\* The request is a POST to the protocol endpoint whose body parses as JSON.
ParsesAsJson(request) ==
    ReachesDispatcher(request) /\ request.body.json \in {"object", "null"}

\* C7: for every POST /mcp request whose body parses as JSON, whatever its
\* method and params (params missing included), the response carries an id
\* equal to the request's id.
C7_IdEchoed ==
    (last.served /\ ParsesAsJson(last.request))
    => last.response.id = last.request.body.id

\* The request is a tools/call naming a tool that is not registered.
CallsUnregistered(request) ==
    /\ ReachesDispatcher(request)
    /\ request.body.json = "object"
    /\ request.body.method = Str("tools/call")
    /\ request.body.params.present
    /\ request.body.params.name.t = "string"
    /\ request.body.params.name.s \notin Range(ToolNames)

\* C8: tools/call with a tool name that is not one of the five registered
\* tools returns a JSON-RPC error response (code -32603 or -32601) without a
\* result field, delivered as a normal response, and leaves counter and
\* messages unchanged.
C8_UnregisteredToolError ==
    (last.served /\ CallsUnregistered(last.request))
    => /\ last.response.status = 200
       /\ last.response.type = "jsonrpc"
       /\ last.response.hasError
       /\ last.response.error.code \in {-32603, -32601}
       /\ ~last.response.hasResult
       /\ Store = last.pre

C8_Witness ==
    /\ last.served
    /\ CallsUnregistered(last.request)
    /\ last.pre.counter # Num(0)
    /\ Len(last.pre.messages) >= 2

\* The request calls add_to_counter or send_message with arguments that do
\* not have the declared shape.
CallsWithBadArguments(request) ==
    /\ Calls(request, "add_to_counter") \/ Calls(request, "send_message")
    /\ ~DeclaredShape(request)

\* C9: a tools/call whose arguments do not satisfy the tool's declared input
\* shape is rejected with an error response before the handler runs: counter
\* and messages are unchanged by it.
C9_BadArgumentsRejected ==
    (last.served /\ CallsWithBadArguments(last.request))
    => /\ last.response.hasError
       /\ ~last.response.hasResult
       /\ Store = last.pre

C9_Witness ==
    /\ last.served
    /\ Calls(last.request, "add_to_counter")
    /\ AmountOf(last.request) = Str("5")
    /\ last.pre.counter # Num(0)
    /\ Len(last.pre.messages) >= 1

\* C10: a POST /mcp request whose body is not parseable as JSON yields a
\* JSON-RPC error object with code -32700 and no id field, and counter and
\* messages are unchanged.
C10_ParseError ==
    (/\ last.served
     /\ ReachesDispatcher(last.request)
     /\ last.request.body.json = "malformed")
    => /\ last.response.type = "jsonrpc"
       /\ last.response.hasError
       /\ last.response.error.code = -32700
       /\ ~last.response.hasResult
       /\ last.response.id = Undefined
       /\ Store = last.pre

C10_Witness ==
    /\ last.served
    /\ variant = "worker"
    /\ ReachesDispatcher(last.request)
    /\ last.request.body.json = "malformed"
    /\ last.pre.counter # Num(0)
    /\ Len(last.pre.messages) >= 1

\* The five methods the dispatcher knows.
KnownMethods ==
    {Str("initialize"), Str("tools/list"), Str("tools/call"),
     Str("resources/list"), Str("resources/read")}

\* A JSON object sent to the protocol endpoint with a method outside the five
\* known ones, or with no method field.
UnknownMethod(request) ==
    /\ ReachesDispatcher(request)
    /\ request.body.json = "object"
    /\ request.body.method \notin KnownMethods

C13_ErrorsLeaveStateAlone ==
    (last.served /\ last.response.hasError) => Store = last.pre

C13_Witness ==
    /\ last.served
    /\ last.response.hasError
    /\ last.response.error.code = -32603
    /\ Calls(last.request, "add_to_counter")
    /\ older.tool = "add_to_counter"
    /\ Len(last.pre.messages) >= 2

\* C14: every JSON-RPC response the dispatcher produces for a decoded request
\* contains exactly one of the fields result and error.
C14_ResultXorError ==
    (last.served /\ ParsesAsJson(last.request))
    => /\ last.response.type = "jsonrpc"
       /\ last.response.hasResult # last.response.hasError

C14_Witness ==
    /\ last.served
    /\ ParsesAsJson(last.request)
    /\ last.response.hasResult
    /\ ~last.response.hasError
    /\ older.tool = "reset_counter"
    /\ Calls(last.request, "add_to_counter")

\* The request is a resources/read that carries a URI.
ReadsUri(request) ==
    /\ ReachesDispatcher(request)
    /\ request.body.json = "object"
    /\ request.body.method = Str("resources/read")
    /\ request.body.params.present
    /\ request.body.params.uri.present

\* C15: resources/read resolves params.uri to a registered resource by its
\* trailing path segment (or exact URI) and returns that resource's handler
\* result; a URI that matches neither the counter nor the messages resource
\* yields an error response and no result.
C15_ResourceResolution ==
    (last.served /\ ReadsUri(last.request))
    => LET segs == last.request.body.params.uri.segs
           name == segs[Len(segs)]
       IN  CASE name = "counter" ->
                   /\ last.response.hasResult
                   /\ last.response.result.kind = "contents"
                   /\ last.response.result.text =
                         "Current counter value: "
                         \o ToString(Store.counter.n)
             [] name = "messages" ->
                   /\ last.response.hasResult
                   /\ last.response.result.kind = "contents"
                   /\ \E sep \in {"\n", "\\n"} :
                         last.response.result.text =
                             Join(Store.messages, sep)
             [] OTHER ->
                   /\ last.response.hasError
                   /\ ~last.response.hasResult

C15_Witness ==
    /\ last.served
    /\ ReadsUri(last.request)
    /\ last.request.body.params.uri = Uri(<<"x", "counter">>)
    /\ last.response.hasResult
    /\ Store.counter # Num(0)

\* C16: after any sequence of requests, reading the counter resource returns
\* "Current counter value: {counter}" with the counter the state holds at
\* the time of the read.
C16_CounterResourceCurrent ==
    (last.served /\ Reads(last.request, "counter"))
    => /\ last.response.hasResult
       /\ last.response.result.text =
             "Current counter value: " \o ToString(Store.counter.n)
       /\ Store = last.pre

C16_Witness ==
    /\ last.served
    /\ Reads(last.request, "counter")
    /\ older.tool = "add_to_counter"
    /\ older.pre.counter # Num(0)
    /\ Store.counter \notin {Num(0), older.pre.counter}

\* C17: after any sequence of requests from a fresh start, get_message_count
\* returns "Total messages stored: {n}" where n is the number of
\* add_to_counter, reset_counter, get_time and send_message calls that
\* succeeded so far.
C17_CountIsNumberOfLoggingCalls ==
    (last.served /\ Calls(last.request, "get_message_count"))
    => /\ last.response.hasResult
       /\ last.response.result.text =
             "Total messages stored: " \o ToString(Len(calls))
       /\ Len(Store.messages) = Len(calls)

\* The scenario: fresh, add_to_counter(5), reset_counter, get_message_count.
C17_Witness ==
    /\ last.served
    /\ Calls(last.request, "get_message_count")
    /\ calls = <<"add_to_counter", "reset_counter">>
    /\ Store.counter = Num(0)
    /\ Len(Store.messages) = 2
    /\ last.response.result.text = "Total messages stored: 2"

\* C18: get_time and send_message each append exactly one log entry
\* ("Time requested: {timestamp}" and "[{timestamp}] {message}", the text the
\* response reports) and leave counter unchanged.
C18_TimeAndMessageLogOnce ==
    /\ (last.served /\ Calls(last.request, "get_time"))
       => \E ts \in Timestamps :
             /\ Store.messages =
                   Append(last.pre.messages, "Time requested: " \o ts)
             /\ last.response.result.text = "Current server time: " \o ts
             /\ Store.counter = last.pre.counter
    /\ (last.served /\ ValidCall(last.request, "send_message"))
       => \E ts \in Timestamps :
             LET entry == "[" \o ts \o "] "
                          \o last.request.body.params.arguments.message.s
             IN  /\ Store.messages = Append(last.pre.messages, entry)
                 /\ last.response.result.text = "Message stored: " \o entry
                 /\ Store.counter = last.pre.counter

C18_Witness ==
    /\ last.served
    /\ ValidCall(last.request, "send_message")
    /\ older.tool = "get_time"
    /\ last.pre.counter # Num(0)
    /\ Len(Store.messages) = 3

\* C19: an OPTIONS request to any path is answered as a CORS preflight: an
\* empty body with the header Access-Control-Allow-Origin: *, and no error
\* status.
C19_OptionsIsPreflight ==
    (last.served /\ last.request.method = "OPTIONS")
    => /\ last.response.status \in 200..299
       /\ last.response.type = "text"
       /\ last.response.text = ""
       /\ <<"Access-Control-Allow-Origin", "*">> \in last.response.headers

\* The request is a GET of /health.
GetsHealth(request) ==
    request.method = "GET" /\ request.pathname = HEALTH_PATH

\* C20 as stated: GET /health returns a JSON object with status, timestamp
\* and state {counter, messageCount}, counter and messageCount being the
\* current counter and the current length of messages.
C20_HealthReportsState ==
    (last.served /\ GetsHealth(last.request))
    => /\ last.response.type = "json"
       /\ last.response.json.status = "ok"
       /\ last.response.json.timestamp \in Timestamps
       /\ last.response.json.hasState
       /\ last.response.json.counter = Store.counter
       /\ last.response.json.messageCount = Len(Store.messages)

\* C20 amended: the worker's GET /health reports status, timestamp and the
\* current counter and message count; the agent's GET /health reports
\* status, timestamp and the transport paths, and no state.
C20_HealthPerVariant ==
    (last.served /\ GetsHealth(last.request))
    => /\ last.response.type = "json"
       /\ last.response.json.status = "ok"
       /\ last.response.json.timestamp \in Timestamps
       /\ Store = last.pre
       /\ IF variant = "worker"
          THEN /\ last.response.json.hasState
               /\ last.response.json.counter = Store.counter
               /\ last.response.json.messageCount = Len(Store.messages)
          ELSE /\ ~last.response.json.hasState
               /\ last.response.json.hasTransport

C20_Witness ==
    /\ last.served
    /\ GetsHealth(last.request)
    /\ variant = "worker"
    /\ Store.counter # Num(0)
    /\ Len(Store.messages) = 2

\* What a tool call is specified to leave behind, and to answer.
ExpectedAfter(st, request) ==
    IF ValidCall(request, "add_to_counter")
    THEN [counter |-> Num(st.counter.n + AmountOf(request).n),
          messages |-> Append(st.messages,
                              AddedEntry(AmountOf(request).n, st.counter.n))]
    ELSE IF Calls(request, "reset_counter")
    THEN [counter |-> Num(0),
          messages |-> Append(st.messages, "Counter reset to 0")]
    ELSE st

ExpectedText(st, request) ==
    IF ValidCall(request, "add_to_counter")
    THEN "Successfully added " \o ToString(AmountOf(request).n)
         \o " to counter. New value: "
         \o ToString(st.counter.n + AmountOf(request).n)
    ELSE IF Calls(request, "reset_counter")
    THEN "Counter has been reset to 0"
    ELSE "Total messages stored: " \o ToString(Len(st.messages))

\* The store after running, one after the other from a fresh state, the
\* first k requests whose handlers ran.
RECURSIVE SerialState(_)
SerialState(k) ==
    IF k = 0 THEN InitialState
    ELSE ExpectedAfter(SerialState(k - 1), inflight[ran[k]].request)

\* C12: under any interleaving of concurrently arriving requests no update
\* is lost and no torn state is observed: the store always equals the result
\* of running the requests whose handlers have run one after the other, in
\* the order the handlers ran, and each of them answers what it would answer
\* at its place in that serial order.
C12_Serializable ==
    /\ Store = SerialState(Len(ran))
    /\ \A k \in DOMAIN ran :
          /\ inflight[ran[k]].response.hasResult
          /\ inflight[ran[k]].response.result.text =
                ExpectedText(SerialState(k - 1), inflight[ran[k]].request)

\* Two add_to_counter calls in flight together, the one that arrived second
\* running its handler first.
C12_Witness ==
    /\ Len(inflight) = 2
    /\ \A i \in DOMAIN inflight :
          /\ ValidCall(inflight[i].request, "add_to_counter")
          /\ inflight[i].pc = "done"
          /\ inflight[i].seen = InitialState
    /\ AmountOf(inflight[1].request) # AmountOf(inflight[2].request)
    /\ ran = <<2, 1>>
    /\ Store.counter = Num(3)
    /\ Len(Store.messages) = 2

\* A JSON object with method tools/call sent to the protocol endpoint.
ToolsCallRequest(request) ==
    /\ ReachesDispatcher(request)
    /\ request.body.json = "object"
    /\ request.body.method = Str("tools/call")

\* C21: only tools/call can change the state: every other request
\* (initialize, tools/list, resources/list, resources/read, GET /health,
\* GET /, a non-POST request to /mcp, a request to an unmatched path) leaves
\* counter and messages as they were, in every reachable state.
C21_OnlyToolsCallChangesState ==
    (last.served /\ ~ToolsCallRequest(last.request)) => Store = last.pre

\* A resources/read answered with the contents of a resource, served by the
\* worker after tool calls have changed the counter and the log.
C21_Witness ==
    /\ last.served
    /\ variant = "worker"
    /\ ReachesDispatcher(last.request)
    /\ last.request.body.json = "object"
    /\ last.request.body.method = Str("resources/read")
    /\ last.response.hasResult
    /\ last.pre.counter # Num(0)
    /\ Len(last.pre.messages) >= 2

====
